---- MODULE Spec2Model ----
(***************************************************************************)
(* Model of qserver/qiskit_simulator.py: the register context, the qubit   *)
(* counter and the global state of QiskitSimulator, and every public       *)
(* operation on them.                                                      *)
(*                                                                         *)
(* The Statevector held by the simulator is modelled as the ordered        *)
(* sequence of its qubits (position i+1 of the sequence is physical index  *)
(* i).  Each qubit carries                                                 *)
(*   val : "0" or "1" when the qubit is a basis-state factor of the        *)
(*         vector, "?" otherwise (superposed or entangled: a measurement   *)
(*         may give either outcome);                                       *)
(*   id  : the register identifier that was passed to the new_qubit call   *)
(*         that created the qubit.  It is not stored by the program; it    *)
(*         names the logical qubit so that index bookkeeping can be        *)
(*         compared with what the vector really holds.                     *)
(* Every call into qiskit (AerSimulator.run(...).result(), partial_trace)  *)
(* may raise: those exceptions propagate out of the method unchanged.      *)
(* The caller treats such an exception as fatal: the only call it makes on *)
(* the simulator afterwards is reset().                                    *)
(***************************************************************************)
EXTENDS Integers, Sequences, FiniteSets, TLC

\* Register identifiers offered by the caller are 0 .. MaxReg-1.
MaxReg == 3
\* Longest list of classical controls passed to a gate.
MaxControls == 2

Regs == 0 .. (MaxReg - 1)

VARIABLES context, num_qubits, state, fatal

vars == <<context, num_qubits, state, fatal>>

----------------------------------------------------------------------------
(* Values *)

None == <<>>

QubitRegister(i) == [type |-> "QubitRegister", qubit |-> i]

BitRegister(b) == [type |-> "BitRegister", bit |-> b]

\* One qubit of a Statevector: Statevector([1, 0]) or Statevector([0, 1]).
BasisQubit(reg, bvalue) == [id |-> reg, val |-> IF bvalue THEN "1" ELSE "0"]

\* What a call gives back to its caller: a return value or an exception.
RetNone == [kind |-> "None", msg |-> "", val |-> 0]

RetInt(i) == [kind |-> "int", msg |-> "", val |-> i]

RetStr == [kind |-> "str", msg |-> "", val |-> 0]

UsageError(m, reg) == [kind |-> "UsageError", msg |-> m, val |-> reg]

NameError == [kind |-> "NameError", msg |-> "name 'b_reg' is not defined", val |-> 0]

\* Any exception raised inside qiskit or numpy.
BackendError == [kind |-> "BackendError", msg |-> "", val |-> 0]

IsError(r) == r.kind \in {"UsageError", "NameError", "BackendError"}

\* The simulator's fields, and the result of running one method on them:
\* the fields afterwards, what the caller gets, and the number of calls
\* made into qiskit.
Sim == [context |-> context, num_qubits |-> num_qubits, state |-> state]

Outcome(c, n, st, r, k) ==
  [context |-> c, num_qubits |-> n, state |-> st, ret |-> r, calls |-> k]

Same(s, r, k) == Outcome(s.context, s.num_qubits, s.state, r, k)

IsQubit(c, reg) == reg \in DOMAIN c /\ c[reg].type = "QubitRegister"

IsBit(c, reg) == reg \in DOMAIN c /\ c[reg].type = "BitRegister"

\* del self.context[reg]
Del(c, reg) == [k \in (DOMAIN c) \ {reg} |-> c[k]]

\* self.context[reg] = entry
Put(c, reg, entry) == [k \in (DOMAIN c) \cup {reg} |-> IF k = reg THEN entry ELSE c[k]]

----------------------------------------------------------------------------
(* Validators *)

check_qubit_reg_exists(c, reg) ==
  IF reg \notin DOMAIN c THEN UsageError("does not exist", reg)
  ELSE IF c[reg].type # "QubitRegister" THEN UsageError("must be of type Qubit", reg)
  ELSE RetNone

check_bit_reg_exists(c, reg) ==
  IF reg \notin DOMAIN c THEN UsageError("does not exist", reg)
  ELSE IF c[reg].type # "BitRegister" THEN UsageError("must be of type Bit", reg)
  ELSE RetNone

----------------------------------------------------------------------------
(* reset, dump, fresh *)

reset(s) == {Outcome(<<>>, 0, None, RetNone, 0)}

dump(s) == {Same(s, RetStr, 0)}

RECURSIVE FreshFrom(_, _)
FreshFrom(c, i) == IF i \notin DOMAIN c THEN i ELSE FreshFrom(c, i + 1)

\* Mutation: the number of keys is returned instead of scanning from 0.
fresh_CountsKeys(s) == {Same(s, RetInt(Cardinality(DOMAIN s.context)), 0)}

fresh(s) == {Same(s, RetInt(FreshFrom(s.context, 0)), 0)}

----------------------------------------------------------------------------
(* new_qubit *)

\* Mutation: the index is taken from the counter after its increment.
NewQubitEntry_AfterIncrement(nq) == QubitRegister(nq)

\* The entry new_qubit stores, from the counter it has already incremented.
NewQubitEntry(nq) == QubitRegister(nq - 1)

\* The circuit of new_qubit: initialize qubits 0..nq-2 from the old vector,
\* x on qubit nq-1 if bvalue.  initialize rejects a vector whose size is
\* not that of the qubits it is given.
ExtendOk(st, nq) == Len(st) = nq - 1

\* Mutation: the result of the run is not stored.
Extend_NotStored(st, reg, bvalue) == st

\* Mutation: the x gate that sets the new qubit to 1 is left out.
Extend_IgnoresValue(st, reg, bvalue) == Append(st, BasisQubit(reg, FALSE))

Extend(st, reg, bvalue) == Append(st, BasisQubit(reg, bvalue))

\* Mutation: the check that the identifier is free is missing.
new_qubit_NoCheck(s, reg, bvalue) ==
  LET nq == s.num_qubits + 1 IN
  IF s.state = None
  THEN {Outcome(Put(s.context, reg, NewQubitEntry(nq)), nq,
                <<BasisQubit(reg, bvalue)>>, RetNone, 0)}
  ELSE {Outcome(s.context, nq, s.state, BackendError, 1)}
       \cup (IF ExtendOk(s.state, nq)
             THEN {Outcome(Put(s.context, reg, NewQubitEntry(nq)), nq,
                           Extend(s.state, reg, bvalue), RetNone, 1)}
             ELSE {})

\* Mutation: the counter is incremented before the identifier is checked.
new_qubit_CountsFirst(s, reg, bvalue) ==
  LET nq == s.num_qubits + 1 IN
  IF reg \in DOMAIN s.context
  THEN {Outcome(s.context, nq, s.state, UsageError("already exists", reg), 0)}
  ELSE IF s.state = None
       THEN {Outcome(Put(s.context, reg, NewQubitEntry(nq)), nq,
                     <<BasisQubit(reg, bvalue)>>, RetNone, 0)}
       ELSE {Outcome(s.context, nq, s.state, BackendError, 1)}
            \cup (IF ExtendOk(s.state, nq)
                  THEN {Outcome(Put(s.context, reg, NewQubitEntry(nq)), nq,
                                Extend(s.state, reg, bvalue), RetNone, 1)}
                  ELSE {})

new_qubit(s, reg, bvalue) ==
  IF reg \in DOMAIN s.context
  THEN {Same(s, UsageError("already exists", reg), 0)}
  ELSE LET nq == s.num_qubits + 1 IN
       IF s.state = None
       THEN {Outcome(Put(s.context, reg, NewQubitEntry(nq)), nq,
                     <<BasisQubit(reg, bvalue)>>, RetNone, 0)}
       ELSE {Outcome(s.context, nq, s.state, BackendError, 1)}
            \cup (IF ExtendOk(s.state, nq)
                  THEN {Outcome(Put(s.context, reg, NewQubitEntry(nq)), nq,
                                Extend(s.state, reg, bvalue), RetNone, 1)}
                  ELSE {})

----------------------------------------------------------------------------
(* measure *)

\* Outcomes the sampler can give for a qubit.
MeasOutcomes(v) == IF v = "0" THEN {FALSE} ELSE IF v = "1" THEN {TRUE} ELSE {FALSE, TRUE}

\* Mutation: the highest qubit is traced out instead of qubit q.
PartialTrace_Highest(st, q) == SubSeq(st, 1, Len(st) - 1)

\* partial_trace(vector, [q]).to_statevector(): the vector without qubit q,
\* higher qubits one position down.
PartialTrace(st, q) == [i \in 1 .. (Len(st) - 1) |-> IF i <= q THEN st[i] ELSE st[i + 1]]

\* Mutation: the loop is missing.
Reindex_Missing(c, q) == c

\* Mutation: the comparison of the loop reads x.qubit >= q - 1.
Reindex_OffByTwo(c, q) ==
  [k \in DOMAIN c |->
     IF c[k].type = "QubitRegister" /\ c[k].qubit >= q - 1
     THEN QubitRegister(c[k].qubit - 1)
     ELSE c[k]]

\* The loop closing the gap in the indices after qubit q is gone.
Reindex(c, q) ==
  [k \in DOMAIN c |->
     IF c[k].type = "QubitRegister" /\ c[k].qubit > q
     THEN QubitRegister(c[k].qubit - 1)
     ELSE c[k]]

\* The circuit of measure: initialize all num_qubits qubits from the
\* vector, measure qubit q.
MeasureRunOk(s, q) ==
  s.state # None /\ Len(s.state) = s.num_qubits /\ q < s.num_qubits

\* Lines 122-135, once the measurement result m is known.
MeasureCommit(s, reg, q, m) ==
  LET c1 == Put(s.context, reg, BitRegister(m))
      nq == s.num_qubits - 1
  IN  IF nq > 0
      THEN {Outcome(Reindex(c1, q), nq, PartialTrace(s.state, q), RetNone, 2),
            Outcome(c1, nq, s.state, BackendError, 2)}
      ELSE {Outcome(Reindex(c1, q), nq, None, RetNone, 1)}

measure(s, reg) ==
  LET chk == check_qubit_reg_exists(s.context, reg) IN
  IF IsError(chk) THEN {Same(s, chk, 0)}
  ELSE LET q == s.context[reg].qubit IN
       {Same(s, BackendError, 1)}
       \cup (IF MeasureRunOk(s, q)
             THEN UNION {MeasureCommit(s, reg, q, m) : m \in MeasOutcomes(s.state[q + 1].val)}
             ELSE {})

----------------------------------------------------------------------------
(* read, discard, new_qubit_from_bit *)

\* Mutation: int() is given the register, which is always truthy, in
\* place of its bit.
Int01_Truthy(b) == 1

Int01(b) == IF b THEN 1 ELSE 0

\* Mutation: read starts with _check_qubit_reg_exists, as measure does.
read_QubitOnly(s, reg) ==
  LET chk == check_qubit_reg_exists(s.context, reg) IN
  IF IsError(chk) THEN {Same(s, chk, 0)}
  ELSE {IF IsError(o.ret) THEN o
        ELSE [o EXCEPT !.ret = RetInt(Int01(o.context[reg].bit))] : o \in measure(s, reg)}

read(s, reg) ==
  IF reg \notin DOMAIN s.context THEN {Same(s, UsageError("does not exist", reg), 0)}
  ELSE IF s.context[reg].type = "QubitRegister"
  THEN {IF IsError(o.ret) THEN o
        ELSE [o EXCEPT !.ret = RetInt(Int01(o.context[reg].bit))] : o \in measure(s, reg)}
  ELSE {Same(s, RetInt(Int01(s.context[reg].bit)), 0)}

\* Mutation: the context is cleared instead of the one entry being deleted.
discard_ClearsContext(s, reg) ==
  IF reg \notin DOMAIN s.context THEN {Same(s, UsageError("does not exist", reg), 0)}
  ELSE IF s.context[reg].type = "QubitRegister"
  THEN {IF IsError(o.ret) THEN o
        ELSE [o EXCEPT !.context = <<>>] : o \in measure(s, reg)}
  ELSE {Outcome(<<>>, s.num_qubits, s.state, RetNone, 0)}

discard(s, reg) ==
  IF reg \notin DOMAIN s.context THEN {Same(s, UsageError("does not exist", reg), 0)}
  ELSE IF s.context[reg].type = "QubitRegister"
  THEN {IF IsError(o.ret) THEN o
        ELSE [o EXCEPT !.context = Del(o.context, reg)] : o \in measure(s, reg)}
  ELSE {Outcome(Del(s.context, reg), s.num_qubits, s.state, RetNone, 0)}

\* The register is deleted, then the argument b_reg.bit of the call to
\* new_qubit is evaluated: b_reg is bound nowhere, so NameError is raised
\* and new_qubit is never entered.
new_qubit_from_bit(s, reg) ==
  LET chk == check_bit_reg_exists(s.context, reg) IN
  IF IsError(chk) THEN {Same(s, chk, 0)}
  ELSE {Outcome(Del(s.context, reg), s.num_qubits, s.state, NameError, 0)}

----------------------------------------------------------------------------
(* _gate_operation and the gate_* entry points *)

\* for x in regs: self._check_qubit_reg_exists(x)
RECURSIVE TargetsFrom(_, _, _)
TargetsFrom(c, regs, i) ==
  IF i > Len(regs) THEN RetNone
  ELSE LET chk == check_qubit_reg_exists(c, regs[i]) IN
       IF IsError(chk) THEN chk ELSE TargetsFrom(c, regs, i + 1)

\* Mutation: the value of the control bits is not looked at.
RECURSIVE ControlsFrom_NoSkip(_, _, _)
ControlsFrom_NoSkip(c, controls, i) ==
  IF i > Len(controls) THEN [act |-> "proceed", ret |-> RetNone]
  ELSE LET chk == check_bit_reg_exists(c, controls[i]) IN
       IF IsError(chk) THEN [act |-> "raise", ret |-> chk]
       ELSE ControlsFrom_NoSkip(c, controls, i + 1)

\* for c in controls: check, then return from the method on a false bit.
\* act is "raise" (with the exception in ret), "return" or "proceed".
RECURSIVE ControlsFrom(_, _, _)
ControlsFrom(c, controls, i) ==
  IF i > Len(controls) THEN [act |-> "proceed", ret |-> RetNone]
  ELSE LET chk == check_bit_reg_exists(c, controls[i]) IN
       IF IsError(chk) THEN [act |-> "raise", ret |-> chk]
       ELSE IF ~c[controls[i]].bit THEN [act |-> "return", ret |-> RetNone]
       ELSE ControlsFrom(c, controls, i + 1)

Flip(v) == IF v = "0" THEN "1" ELSE IF v = "1" THEN "0" ELSE "?"

\* Value of the target of a controlled flip whose controls hold cs.
CtrlFlip(cs, v) ==
  IF "0" \in cs THEN v
  ELSE IF cs = {"1"} THEN Flip(v)
  ELSE "?"

FlipGates == {"X", "Y"}

PhaseGates == {"Z", "T", "TInv", "S", "SInv", "Rz", "Diag"}

CtrlFlipGates == {"CNOT", "CY", "Toffoli"}

CtrlPhaseGates == {"CZ", "CRz"}

Gates == {"H"} \cup FlipGates \cup PhaseGates \cup CtrlFlipGates \cup CtrlPhaseGates

Arity(gate) ==
  IF gate = "Toffoli" THEN 3
  ELSE IF gate \in {"CNOT", "CY", "CZ", "CRz"} THEN 2
  ELSE 1

\* Mutation: the first qubit of the list is taken as the target.
ApplyGate_FirstIsTarget(gate, st, qubits) ==
  LET n == Len(qubits)
      t == qubits[1] + 1
      cs == {st[qubits[i] + 1].val : i \in 2 .. n}
  IN  IF gate = "H" THEN [st EXCEPT ![t].val = "?"]
      ELSE IF gate \in FlipGates THEN [st EXCEPT ![t].val = Flip(@)]
      ELSE IF gate \in CtrlFlipGates THEN [st EXCEPT ![t].val = CtrlFlip(cs, @)]
      ELSE st

\* qc.append(gate, qubits) on the vector: qubits are physical indices, the
\* last one is the target of a controlled gate and the others its controls.
\* The angles of Rz, Diag and CRz change phases only.
ApplyGate(gate, st, qubits) ==
  LET n == Len(qubits)
      t == qubits[n] + 1
      cs == {st[qubits[i] + 1].val : i \in 1 .. (n - 1)}
  IN  IF gate = "H" THEN [st EXCEPT ![t].val = "?"]
      ELSE IF gate \in FlipGates THEN [st EXCEPT ![t].val = Flip(@)]
      ELSE IF gate \in CtrlFlipGates THEN [st EXCEPT ![t].val = CtrlFlip(cs, @)]
      ELSE st

\* The circuit of _gate_operation: initialize all num_qubits qubits from
\* the vector, append the gate.  append rejects an index that is not a
\* qubit of the circuit and a qubit given twice.
GateRunOk(s, qubits) ==
  /\ s.state # None
  /\ Len(s.state) = s.num_qubits
  /\ \A i \in 1 .. Len(qubits) : qubits[i] < s.num_qubits
  /\ \A i, j \in 1 .. Len(qubits) : i # j => qubits[i] # qubits[j]

\* Mutation: the register identifiers are passed to qiskit in place of the
\* indices the context holds for them.
gate_body_RegsAsIndices(s, gate, regs, cchk) ==
  LET tchk == TargetsFrom(s.context, regs, 1) IN
  IF IsError(tchk) THEN {Same(s, tchk, 0)}
  ELSE IF cchk.act = "raise" THEN {Same(s, cchk.ret, 0)}
       ELSE IF cchk.act = "return" THEN {Same(s, RetNone, 0)}
       ELSE LET qubits == [i \in 1 .. Len(regs) |-> regs[i]] IN
            {Same(s, BackendError, 1)}
            \cup (IF GateRunOk(s, qubits)
                  THEN {Outcome(s.context, s.num_qubits,
                                ApplyGate(gate, s.state, qubits), RetNone, 1)}
                  ELSE {})

\* _gate_operation, given the way cchk its loop over the controls ends.
gate_body(s, gate, regs, cchk) ==
  LET tchk == TargetsFrom(s.context, regs, 1) IN
  IF IsError(tchk) THEN {Same(s, tchk, 0)}
  ELSE IF cchk.act = "raise" THEN {Same(s, cchk.ret, 0)}
       ELSE IF cchk.act = "return" THEN {Same(s, RetNone, 0)}
       ELSE LET qubits == [i \in 1 .. Len(regs) |-> s.context[regs[i]].qubit] IN
            {Same(s, BackendError, 1)}
            \cup (IF GateRunOk(s, qubits)
                  THEN {Outcome(s.context, s.num_qubits,
                                ApplyGate(gate, s.state, qubits), RetNone, 1)}
                  ELSE {})

gate_operation(s, gate, regs, controls) ==
  gate_body(s, gate, regs, ControlsFrom(s.context, controls, 1))

----------------------------------------------------------------------------
(* The state machine: one action per public method *)

ControlLists == UNION {[1 .. n -> Regs] : n \in 0 .. MaxControls}

Init ==
  /\ context = <<>>
  /\ num_qubits = 0
  /\ state = None
  /\ fatal = FALSE

\* A method is called and ends with one of the outcomes outs; what it
\* returns or raises goes to the caller and is not kept by the simulator.
Step(outs) ==
  /\ ~fatal
  /\ \E o \in outs :
       /\ context' = o.context
       /\ num_qubits' = o.num_qubits
       /\ state' = o.state
       /\ fatal' = (o.ret.kind = "BackendError")

\* The ways the loop over the controls can end in context c, over every
\* list of at most n controls: such a list is empty, or a first control r
\* followed by a list of at most n-1 controls.
RECURSIVE ControlEndsOf(_, _)
ControlEndsOf(c, n) ==
  IF n = 0 THEN {ControlsFrom(c, <<>>, 1)}
  ELSE LET rest == ControlEndsOf(c, n - 1) IN
       {ControlsFrom(c, <<>>, 1)}
       \cup UNION {IF IsError(check_bit_reg_exists(c, r)) \/ ~c[r].bit
                   THEN {ControlsFrom(c, <<r>>, 1)}
                   ELSE rest : r \in Regs}

\* The ways the loop over the controls can end in the current context,
\* over every list of controls the caller may pass.  A gate called with
\* controls does exactly what gate_body does with
\* ControlsFrom(context, controls, 1).
ControlEnds == ControlEndsOf(context, MaxControls)

\* ControlEnds leaves out no list of controls.
ControlEndsComplete ==
  ControlEnds = {ControlsFrom(context, controls, 1) : controls \in ControlLists}

\* reset() is also what the caller does after a fatal exception.
Reset ==
  \E o \in reset(Sim) :
    /\ context' = o.context
    /\ num_qubits' = o.num_qubits
    /\ state' = o.state
    /\ fatal' = FALSE

Dump == Step(dump(Sim))

Fresh == Step(fresh(Sim))

NewQubit ==
  \E reg \in Regs, bvalue \in BOOLEAN : Step(new_qubit(Sim, reg, bvalue))

Measure == \E reg \in Regs : Step(measure(Sim, reg))

Read == \E reg \in Regs : Step(read(Sim, reg))

Discard == \E reg \in Regs : Step(discard(Sim, reg))

NewQubitFromBit == \E reg \in Regs : Step(new_qubit_from_bit(Sim, reg))

gate_H ==
  Step(UNION {gate_body(Sim, "H", <<reg>>, cchk) : reg \in Regs, cchk \in ControlEnds})

gate_X ==
  Step(UNION {gate_body(Sim, "X", <<reg>>, cchk) : reg \in Regs, cchk \in ControlEnds})

gate_Y ==
  Step(UNION {gate_body(Sim, "Y", <<reg>>, cchk) : reg \in Regs, cchk \in ControlEnds})

gate_Z ==
  Step(UNION {gate_body(Sim, "Z", <<reg>>, cchk) : reg \in Regs, cchk \in ControlEnds})

gate_T ==
  Step(UNION {gate_body(Sim, "T", <<reg>>, cchk) : reg \in Regs, cchk \in ControlEnds})

gate_TInv ==
  Step(UNION {gate_body(Sim, "TInv", <<reg>>, cchk) : reg \in Regs, cchk \in ControlEnds})

gate_S ==
  Step(UNION {gate_body(Sim, "S", <<reg>>, cchk) : reg \in Regs, cchk \in ControlEnds})

gate_SInv ==
  Step(UNION {gate_body(Sim, "SInv", <<reg>>, cchk) : reg \in Regs, cchk \in ControlEnds})

gate_CNOT ==
  Step(UNION {gate_body(Sim, "CNOT", <<x, y>>, cchk) : x \in Regs, y \in Regs, cchk \in ControlEnds})

gate_Toffoli ==
  Step(UNION {gate_body(Sim, "Toffoli", <<x, y, z>>, cchk) :
                 x \in Regs, y \in Regs, z \in Regs, cchk \in ControlEnds})

gate_Rz ==
  Step(UNION {gate_body(Sim, "Rz", <<reg>>, cchk) : reg \in Regs, cchk \in ControlEnds})

gate_Diag ==
  Step(UNION {gate_body(Sim, "Diag", <<reg>>, cchk) : reg \in Regs, cchk \in ControlEnds})

gate_CZ ==
  Step(UNION {gate_body(Sim, "CZ", <<x, y>>, cchk) : x \in Regs, y \in Regs, cchk \in ControlEnds})

gate_CY ==
  Step(UNION {gate_body(Sim, "CY", <<x, y>>, cchk) : x \in Regs, y \in Regs, cchk \in ControlEnds})

gate_CRz ==
  Step(UNION {gate_body(Sim, "CRz", <<x, y>>, cchk) : x \in Regs, y \in Regs, cchk \in ControlEnds})

Next ==
  \/ Reset \/ Dump \/ Fresh
  \/ NewQubit \/ Measure \/ Read \/ Discard \/ NewQubitFromBit
  \/ gate_H \/ gate_X \/ gate_Y \/ gate_Z \/ gate_T \/ gate_TInv
  \/ gate_S \/ gate_SInv \/ gate_CNOT \/ gate_Toffoli \/ gate_Rz
  \/ gate_Diag \/ gate_CZ \/ gate_CY \/ gate_CRz

Spec == Init /\ [][Next]_vars

----------------------------------------------------------------------------
(* Vocabulary of the properties *)

QubitRegs(c) == {r \in DOMAIN c : c[r].type = "QubitRegister"}

BitRegs(c) == {r \in DOMAIN c : c[r].type = "BitRegister"}

Indices(c) == {c[r].qubit : r \in QubitRegs(c)}

Ids(st) == {st[i].id : i \in 1 .. Len(st)}

TargetLists(gate) == [1 .. Arity(gate) -> Regs]

SameSim(s, o) ==
  o.context = s.context /\ o.num_qubits = s.num_qubits /\ o.state = s.state

\* A call returned normally.
Returned(o) == ~IsError(o.ret)

\* Every QubitRegister of c points at the qubit of st that was created
\* for it.
PointsAtOwn(c, st) ==
  \A r \in QubitRegs(c) :
    /\ c[r].qubit + 1 \in 1 .. Len(st)
    /\ st[c[r].qubit + 1].id = r

----------------------------------------------------------------------------
(* C1: as long as no call has raised out of qiskit since the last reset,   *)
(* the indices held by the QubitRegister entries are exactly               *)
(* 0 .. num_qubits-1, each held once, and num_qubits is the number of      *)
(* QubitRegister entries.                                                  *)

C1_DenseIndices ==
  ~fatal =>
    /\ Indices(context) = 0 .. (num_qubits - 1)
    /\ Cardinality(QubitRegs(context)) = num_qubits

\* Three qubits, the one at index 0 is measured, the two others are left
\* at indices 0 and 1.
C1_Witness ==
  /\ ~fatal
  /\ num_qubits = 3
  /\ \E reg \in QubitRegs(context) :
       /\ context[reg].qubit = 0
       /\ \E o \in measure(Sim, reg) :
            /\ Returned(o)
            /\ Indices(o.context) = {0, 1}
            /\ Cardinality(QubitRegs(o.context)) = 2

----------------------------------------------------------------------------
(* C2: as long as no call has raised out of qiskit since the last reset,   *)
(* the state is None exactly when num_qubits is 0 and otherwise holds      *)
(* num_qubits qubits; a new_qubit that returns makes it one qubit larger,  *)
(* a measure that returns one qubit smaller, a gate that returns keeps its *)
(* size.                                                                   *)

C2_StateSize ==
  ~fatal =>
    /\ (state = None) <=> (num_qubits = 0)
    /\ Len(state) = num_qubits
    /\ \A reg \in Regs, bvalue \in BOOLEAN : \A o \in new_qubit(Sim, reg, bvalue) :
         Returned(o) => Len(o.state) = Len(state) + 1 /\ o.state # None
    /\ \A reg \in Regs : \A o \in measure(Sim, reg) :
         Returned(o) => Len(o.state) = Len(state) - 1
    /\ \A cchk \in ControlEnds : \A gate \in Gates : \A regs \in TargetLists(gate) :
         \A o \in gate_body(Sim, gate, regs, cchk) :
           Returned(o) => Len(o.state) = Len(state)

\* The state has gone from one qubit to two, and a measurement takes it
\* back to one; and the state is None again after the last qubit is measured.
C2_Witness ==
  /\ ~fatal
  /\ num_qubits = 2
  /\ Len(state) = 2
  /\ \E reg \in QubitRegs(context) : \E o \in measure(Sim, reg) :
       /\ Returned(o)
       /\ Len(o.state) = 1
       /\ \E r2 \in QubitRegs(o.context) : \E o2 \in measure(o, r2) :
            Returned(o2) /\ o2.state = None /\ o2.num_qubits = 0

----------------------------------------------------------------------------
(* C3: as long as no call has raised out of qiskit since the last reset,   *)
(* every QubitRegister r points at the position of the vector that holds   *)
(* the qubit created by new_qubit(r); a measurement of r removes that      *)
(* qubit and no other, and a gate on r changes no other qubit.             *)

C3_OwnQubit ==
  ~fatal =>
    /\ PointsAtOwn(context, state)
    /\ \A reg \in Regs : \A o \in measure(Sim, reg) :
         Returned(o) =>
           /\ PointsAtOwn(o.context, o.state)
           /\ Ids(o.state) = Ids(state) \ {reg}
           /\ \A r \in QubitRegs(o.context) :
                o.state[o.context[r].qubit + 1] = state[context[r].qubit + 1]
    /\ \A reg \in Regs : \A o \in gate_operation(Sim, "X", <<reg>>, <<>>) :
         Returned(o) =>
           \A i \in 1 .. Len(state) :
             IF state[i].id = reg
             THEN o.state[i] = [state[i] EXCEPT !.val = Flip(@)]
             ELSE o.state[i] = state[i]

\* Register r holds the qubit at index 1 in state "1" and another register
\* the qubit at index 0 in state "0"; the other register is measured, and
\* r, now at index 0, is then measured and gives 1.
C3_Witness ==
  /\ ~fatal
  /\ num_qubits = 2
  /\ \E a \in QubitRegs(context), r \in QubitRegs(context) :
       /\ context[a].qubit = 0 /\ state[1].val = "0"
       /\ context[r].qubit = 1 /\ state[2].val = "1"
       /\ \E o \in measure(Sim, a) :
            /\ Returned(o)
            /\ o.context[r].qubit = 0
            /\ \E o2 \in measure(o, r) : Returned(o2) /\ o2.context[r] = BitRegister(TRUE)
            /\ \A o2 \in measure(o, r) : Returned(o2) => o2.context[r] = BitRegister(TRUE)

----------------------------------------------------------------------------
(* C4: a measure(reg) that returns, of a qubit at index q, leaves reg a    *)
(* BitRegister, num_qubits one lower, every other QubitRegister whose      *)
(* index was above q one lower, every QubitRegister whose index was below  *)
(* q and every other BitRegister as it was, and the keys of the context    *)
(* the same.                                                               *)

C4_MeasureReindexes ==
  ~fatal =>
    \A reg \in Regs : \A o \in measure(Sim, reg) :
      Returned(o) =>
        LET q == context[reg].qubit IN
        /\ DOMAIN o.context = DOMAIN context
        /\ o.context[reg].type = "BitRegister"
        /\ o.num_qubits = num_qubits - 1
        /\ \A k \in (DOMAIN context) \ {reg} :
             IF context[k].type = "QubitRegister" /\ context[k].qubit > q
             THEN o.context[k] = QubitRegister(context[k].qubit - 1)
             ELSE o.context[k] = context[k]

\* Registers a, b, c hold indices 0, 1, 2 and a is measured: b and c are
\* left at indices 0 and 1.
C4_Witness ==
  /\ ~fatal
  /\ num_qubits = 3
  /\ \E a \in Regs, b \in Regs, c \in Regs :
       /\ context[a] = QubitRegister(0)
       /\ context[b] = QubitRegister(1)
       /\ context[c] = QubitRegister(2)
       /\ \E o \in measure(Sim, a) :
            /\ Returned(o)
            /\ o.context[a].type = "BitRegister"
            /\ o.context[b] = QubitRegister(0)
            /\ o.context[c] = QubitRegister(1)
            /\ o.num_qubits = 2

----------------------------------------------------------------------------
(* C5: a new_qubit(reg) that returns, on an identifier that is not a key   *)
(* of the context, adds the entry QubitRegister(num_qubits before the      *)
(* call) for reg, makes num_qubits one higher and leaves every other entry *)
(* as it was; the vector keeps its qubits in place and has the new one at  *)
(* its end; three such calls in a row on an empty simulator give indices   *)
(* 0, 1, 2 whatever the three identifiers are.                             *)

C5_NewQubitAppends ==
  ~fatal =>
    /\ \A reg \in Regs \ DOMAIN context, bvalue \in BOOLEAN :
         \A o \in new_qubit(Sim, reg, bvalue) :
           Returned(o) =>
             /\ DOMAIN o.context = (DOMAIN context) \cup {reg}
             /\ o.context[reg] = QubitRegister(num_qubits)
             /\ o.num_qubits = num_qubits + 1
             /\ \A k \in DOMAIN context : o.context[k] = context[k]
             /\ SubSeq(o.state, 1, Len(state)) = state
             /\ o.state[Len(o.state)] = BasisQubit(reg, bvalue)
    /\ (context = <<>> /\ num_qubits = 0) =>
         \A a \in Regs, b \in Regs, c \in Regs :
           (a # b /\ b # c /\ a # c) =>
             \A o1 \in new_qubit(Sim, a, FALSE) : \A o2 \in new_qubit(o1, b, TRUE) :
               \A o3 \in new_qubit(o2, c, FALSE) :
                 (Returned(o1) /\ Returned(o2) /\ Returned(o3)) =>
                   /\ o3.context[a].qubit = 0
                   /\ o3.context[b].qubit = 1
                   /\ o3.context[c].qubit = 2

\* The context holds a BitRegister and one qubit, at index 0; a new qubit
\* allocated as true under a smaller identifier than the other qubit's is
\* put at index 1, at the end of the vector.
C5_Witness ==
  /\ ~fatal
  /\ \E r \in Regs \ DOMAIN context : \E b \in BitRegs(context) :
       /\ num_qubits = 1
       /\ \E o \in new_qubit(Sim, r, TRUE) :
            /\ Returned(o)
            /\ o.context[r] = QubitRegister(1)
            /\ o.context[b] = context[b]
            /\ o.state[2].val = "1"
            /\ \E r0 \in QubitRegs(context) : o.context[r0] = QubitRegister(0) /\ r < r0

----------------------------------------------------------------------------
(* C6: new_qubit_from_bit(reg) on a register that holds a BitRegister      *)
(* returns and leaves reg a QubitRegister at the index num_qubits had      *)
(* before the call, its qubit in the basis state of the stored bit, and    *)
(* num_qubits one higher.                                                  *)

C6_PromotesBit ==
  ~fatal =>
    \A reg \in BitRegs(context) : \A o \in new_qubit_from_bit(Sim, reg) :
      /\ o.ret.kind \in {"None", "BackendError"}
      /\ Returned(o) =>
           /\ o.context[reg] = QubitRegister(num_qubits)
           /\ o.num_qubits = num_qubits + 1
           /\ o.state[Len(o.state)] = BasisQubit(reg, context[reg].bit)

----------------------------------------------------------------------------
(* C7: whenever a call of a public method raises, the context, num_qubits  *)
(* and the state are what they were before the call.                       *)

C7_ErrorsChangeNothing ==
  ~fatal =>
    /\ \A reg \in Regs, bvalue \in BOOLEAN : \A o \in new_qubit(Sim, reg, bvalue) :
         IsError(o.ret) => SameSim(Sim, o)
    /\ \A reg \in Regs :
         \A o \in new_qubit_from_bit(Sim, reg) \cup measure(Sim, reg)
                  \cup read(Sim, reg) \cup discard(Sim, reg) :
           IsError(o.ret) => SameSim(Sim, o)
    /\ \A gate \in Gates : \A regs \in TargetLists(gate) : \A controls \in ControlLists :
         \A o \in gate_operation(Sim, gate, regs, controls) :
           IsError(o.ret) => SameSim(Sim, o)

----------------------------------------------------------------------------
(* C8: when a call into qiskit raises inside measure, or inside read or    *)
(* discard of a QubitRegister, the context and num_qubits are what they    *)
(* were before the call.                                                   *)

C8_FailedMeasureChangesNothing ==
  ~fatal =>
    \A reg \in QubitRegs(context) :
      \A o \in measure(Sim, reg) \cup read(Sim, reg) \cup discard(Sim, reg) :
        o.ret = BackendError =>
          o.context = context /\ o.num_qubits = num_qubits

----------------------------------------------------------------------------
(* C9: a gate call raises UsageError whenever one of its targets is not a  *)
(* QubitRegister of the context or one register of its controls list, at   *)
(* any position, is not a BitRegister of the context.                      *)

C9_GateValidatesAll ==
  ~fatal =>
    \A controls \in ControlLists : \A gate \in Gates : \A regs \in TargetLists(gate) :
      ( \/ \E i \in 1 .. Len(regs) : ~IsQubit(context, regs[i])
        \/ \E i \in 1 .. Len(controls) : ~IsBit(context, controls[i]) )
      => \A o \in gate_operation(Sim, gate, regs, controls) : o.ret.kind = "UsageError"

----------------------------------------------------------------------------
(* C10: a gate call whose targets are all QubitRegisters and whose         *)
(* controls are all BitRegisters, one of them holding false, returns None, *)
(* calls qiskit not once and leaves the state, the context and num_qubits  *)
(* as they were.                                                           *)

C10_FalseControlSkips ==
  ~fatal =>
    \A controls \in ControlLists :
      ( /\ \A i \in 1 .. Len(controls) : IsBit(context, controls[i])
        /\ \E i \in 1 .. Len(controls) : ~context[controls[i]].bit )
      => \A gate \in Gates : \A regs \in TargetLists(gate) :
           (\A i \in 1 .. Len(regs) : IsQubit(context, regs[i]))
           => gate_operation(Sim, gate, regs, controls) = {Same(Sim, RetNone, 0)}

\* X on a qubit in state "0" under the controls <<true bit, false bit>>:
\* the call returns and the qubit is still in state "0", while the same
\* call without controls flips it.
C10_Witness ==
  /\ ~fatal
  /\ \E t \in BitRegs(context), f \in BitRegs(context), x \in QubitRegs(context) :
       /\ context[t].bit /\ ~context[f].bit
       /\ state[context[x].qubit + 1].val = "0"
       /\ gate_operation(Sim, "X", <<x>>, <<t, f>>) = {Same(Sim, RetNone, 0)}
       /\ \E o \in gate_operation(Sim, "X", <<x>>, <<>>) :
            Returned(o) /\ o.state[context[x].qubit + 1].val = "1"

----------------------------------------------------------------------------
(* C11: every exception a public method raises is a UsageError (or comes   *)
(* out of qiskit), and a UsageError is raised only when a register the     *)
(* call refers to is absent from the context, or is present with the other *)
(* variant than the one the method expects.                                *)

Range(f) == {f[i] : i \in DOMAIN f}

\* One of the registers the call refers to is absent (any), or holds a
\* BitRegister where a qubit is expected (qregs), or a QubitRegister where
\* a bit is expected (bregs).
AbsentOrWrongVariant(c, qregs, bregs, any) ==
  \/ \E r \in qregs \cup bregs \cup any : r \notin DOMAIN c
  \/ \E r \in qregs : IsBit(c, r)
  \/ \E r \in bregs : IsQubit(c, r)

RaisesUsageError(outs) == \E o \in outs : o.ret.kind = "UsageError"

OwnErrorKinds(outs) == {o.ret.kind : o \in {x \in outs : IsError(x.ret)}} \ {"BackendError"}

C11_TwoConditions ==
  ~fatal =>
    /\ \A reg \in Regs, bvalue \in BOOLEAN :
         /\ OwnErrorKinds(new_qubit(Sim, reg, bvalue)) \subseteq {"UsageError"}
         /\ RaisesUsageError(new_qubit(Sim, reg, bvalue))
              => AbsentOrWrongVariant(context, {}, {}, {reg})
    /\ \A reg \in Regs :
         /\ OwnErrorKinds(measure(Sim, reg) \cup read(Sim, reg) \cup discard(Sim, reg)
                          \cup new_qubit_from_bit(Sim, reg)) \subseteq {"UsageError"}
         /\ RaisesUsageError(measure(Sim, reg)) => AbsentOrWrongVariant(context, {reg}, {}, {})
         /\ RaisesUsageError(new_qubit_from_bit(Sim, reg))
              => AbsentOrWrongVariant(context, {}, {reg}, {})
         /\ RaisesUsageError(read(Sim, reg) \cup discard(Sim, reg))
              => AbsentOrWrongVariant(context, {}, {}, {reg})
    /\ OwnErrorKinds(fresh(Sim) \cup dump(Sim) \cup reset(Sim)) = {}
    /\ \A controls \in ControlLists : \A gate \in Gates : \A regs \in TargetLists(gate) :
         /\ OwnErrorKinds(gate_operation(Sim, gate, regs, controls)) \subseteq {"UsageError"}
         /\ RaisesUsageError(gate_operation(Sim, gate, regs, controls))
              => AbsentOrWrongVariant(context, Range(regs), Range(controls), {})

\* C11 as it holds: a third condition is new_qubit on an identifier that is
\* already a key, and new_qubit_from_bit on a BitRegister ends in a
\* NameError.
C11_ThreeConditions ==
  ~fatal =>
    /\ \A reg \in Regs, bvalue \in BOOLEAN :
         /\ OwnErrorKinds(new_qubit(Sim, reg, bvalue)) \subseteq {"UsageError"}
         /\ RaisesUsageError(new_qubit(Sim, reg, bvalue)) => reg \in DOMAIN context
    /\ \A reg \in Regs :
         /\ OwnErrorKinds(measure(Sim, reg) \cup read(Sim, reg) \cup discard(Sim, reg))
              \subseteq {"UsageError"}
         /\ OwnErrorKinds(new_qubit_from_bit(Sim, reg)) =
              IF IsBit(context, reg) THEN {"NameError"} ELSE {"UsageError"}
         /\ RaisesUsageError(measure(Sim, reg)) => AbsentOrWrongVariant(context, {reg}, {}, {})
         /\ RaisesUsageError(new_qubit_from_bit(Sim, reg))
              => AbsentOrWrongVariant(context, {}, {reg}, {})
         /\ RaisesUsageError(read(Sim, reg) \cup discard(Sim, reg))
              => AbsentOrWrongVariant(context, {}, {}, {reg})
    /\ OwnErrorKinds(fresh(Sim) \cup dump(Sim) \cup reset(Sim)) = {}
    /\ \A controls \in ControlLists :
         LET cchk == ControlsFrom(context, controls, 1) IN
         cchk.act = "raise" =>
           /\ cchk.ret.kind = "UsageError"
           /\ AbsentOrWrongVariant(context, {}, Range(controls), {})
    /\ \A cchk \in ControlEnds : \A gate \in Gates : \A regs \in TargetLists(gate) :
         \A o \in gate_body(Sim, gate, regs, cchk) :
           IsError(o.ret) =>
             \/ o.ret.kind = "BackendError"
             \/ /\ o.ret.kind = "UsageError"
                /\ cchk.act = "raise" \/ AbsentOrWrongVariant(context, Range(regs), {}, {})

\* A QubitRegister, a BitRegister and a free identifier: new_qubit on the
\* first, measure on the second and read on the third raise UsageError, and
\* read of the BitRegister returns.
C11_Witness ==
  /\ ~fatal
  /\ \E q \in QubitRegs(context), b \in BitRegs(context), a \in Regs \ DOMAIN context :
       /\ new_qubit(Sim, q, FALSE) = {Same(Sim, UsageError("already exists", q), 0)}
       /\ measure(Sim, b) = {Same(Sim, UsageError("must be of type Qubit", b), 0)}
       /\ read(Sim, a) = {Same(Sim, UsageError("does not exist", a), 0)}
       /\ \A o \in read(Sim, b) : Returned(o)

----------------------------------------------------------------------------
(* C12: measure of a register that is absent or a BitRegister,             *)
(* new_qubit_from_bit of a register that is absent or a QubitRegister,     *)
(* read and discard of an absent register and new_qubit of a register that *)
(* is already a key all raise UsageError, and leave the context,           *)
(* num_qubits and the state as they were.                                  *)

\* Every outcome is a UsageError raised with the simulator s untouched.
RefusedUnchanged(s, outs) ==
  /\ outs # {}
  /\ \A o \in outs : o.ret.kind = "UsageError" /\ SameSim(s, o)

C12_UsageErrorsFirst ==
  ~fatal =>
    \A reg \in Regs :
      /\ ~IsQubit(context, reg) => RefusedUnchanged(Sim, measure(Sim, reg))
      /\ ~IsBit(context, reg) => RefusedUnchanged(Sim, new_qubit_from_bit(Sim, reg))
      /\ reg \notin DOMAIN context
           => RefusedUnchanged(Sim, read(Sim, reg) \cup discard(Sim, reg))
      /\ reg \in DOMAIN context
           => \A bvalue \in BOOLEAN : RefusedUnchanged(Sim, new_qubit(Sim, reg, bvalue))

\* A BitRegister b, a QubitRegister q and a free identifier a: each of the
\* six refused calls is there to be made.
C12_Witness ==
  /\ ~fatal
  /\ state # None
  /\ \E q \in QubitRegs(context), b \in BitRegs(context), a \in Regs \ DOMAIN context :
       /\ RefusedUnchanged(Sim, measure(Sim, b))
       /\ RefusedUnchanged(Sim, measure(Sim, a))
       /\ RefusedUnchanged(Sim, new_qubit_from_bit(Sim, q))
       /\ RefusedUnchanged(Sim, new_qubit_from_bit(Sim, a))
       /\ RefusedUnchanged(Sim, discard(Sim, a))
       /\ RefusedUnchanged(Sim, new_qubit(Sim, b, TRUE))

----------------------------------------------------------------------------
(* C13: after a discard(r) that returns, of a QubitRegister or of a        *)
(* BitRegister, r is not a key of the context, fresh() returns at most r,  *)
(* new_qubit(r) is not refused, and every measure, read, discard,          *)
(* new_qubit_from_bit and gate call that names r, as a target or as a      *)
(* control, raises UsageError.                                             *)

\* Every call on simulator s that refers to the register r raises UsageError.
ReferencesRefused(s, r) ==
  /\ RefusedUnchanged(s, measure(s, r) \cup read(s, r) \cup discard(s, r)
                         \cup new_qubit_from_bit(s, r))
  /\ \A controls \in ControlLists : \A gate \in Gates : \A regs \in TargetLists(gate) :
       r \in Range(regs) \cup Range(controls)
       => \A o \in gate_operation(s, gate, regs, controls) : o.ret.kind = "UsageError"

C13_DiscardReleases ==
  ~fatal =>
    \A r \in Regs : \A o \in discard(Sim, r) :
         Returned(o) =>
           /\ r \notin DOMAIN o.context
           /\ \A f \in fresh(o) : f.ret.kind = "int" /\ f.ret.val <= r
           /\ \A bvalue \in BOOLEAN :
                /\ \E n \in new_qubit(o, r, bvalue) : Returned(n) /\ IsQubit(n.context, r)
                /\ \A n \in new_qubit(o, r, bvalue) : n.ret.kind # "UsageError"
           /\ ReferencesRefused(o, r)

----------------------------------------------------------------------------
(* C14: fresh() returns the smallest integer from 0 up that is not a key   *)
(* of the context, leaves the context, num_qubits and the state as they    *)
(* were, and new_qubit of the identifier it returns does not raise         *)
(* UsageError.                                                             *)

C14_FreshIsSmallestFree ==
  ~fatal =>
    /\ fresh(Sim) # {}
    /\ \A f \in fresh(Sim) :
         /\ f.ret.kind = "int"
         /\ f.ret.val >= 0
         /\ f.ret.val \notin DOMAIN context
         /\ \A i \in 0 .. (f.ret.val - 1) : i \in DOMAIN context
         /\ SameSim(Sim, f)
         /\ \A bvalue \in BOOLEAN : \A n \in new_qubit(f, f.ret.val, bvalue) :
              n.ret.kind # "UsageError"

\* Identifiers 0 and 2 are keys and 1 has been discarded: fresh() returns
\* 1, and new_qubit(1) then returns.
C14_Witness ==
  /\ ~fatal
  /\ DOMAIN context = {0, 2}
  /\ \E f \in fresh(Sim) :
       /\ f.ret = RetInt(1)
       /\ \E n \in new_qubit(f, 1, TRUE) : Returned(n) /\ IsQubit(n.context, 1)

----------------------------------------------------------------------------
(* C15: for every register r that is not a key and every boolean b,        *)
(* whatever qubits are live, a new_qubit(r, b) that returns followed at    *)
(* once by a read(r) that returns gives 1 when b is true and 0 when b is   *)
(* false, and leaves r a BitRegister holding b.                            *)

C15_RoundTrip ==
  ~fatal =>
    \A r \in Regs \ DOMAIN context, b \in BOOLEAN :
      \A n \in new_qubit(Sim, r, b) :
        Returned(n) =>
          /\ \E o \in read(n, r) : Returned(o)
          /\ \A o \in read(n, r) :
               Returned(o) =>
                 /\ o.ret = RetInt(IF b THEN 1 ELSE 0)
                 /\ o.context[r] = BitRegister(b)

\* Two qubits are live, one of them in superposition and the other in
\* state "0"; a third register is allocated as true and read at once: 1.
C15_Witness ==
  /\ ~fatal
  /\ num_qubits = 2
  /\ \E i, j \in 1 .. 2 : state[i].val = "?" /\ state[j].val = "0"
  /\ \E r \in Regs \ DOMAIN context : \E n \in new_qubit(Sim, r, TRUE) :
       /\ Returned(n)
       /\ \E o \in read(n, r) :
            Returned(o) /\ o.ret = RetInt(1) /\ o.context[r] = BitRegister(TRUE)

----------------------------------------------------------------------------
(* C16: allocate a as true and b as false, apply gate_CNOT(a, b, []) and   *)
(* read b: the read returns 1, from every state in which a and b are free, *)
(* whatever registers were allocated, measured or discarded before, and    *)
(* also when another register is allocated, measured or discarded between  *)
(* the two allocations.                                                    *)

\* The simulator s itself, and s after one returning new_qubit, measure or
\* discard of a register other than a and b.
Between(s, a, b) ==
  {s} \cup {o \in UNION {measure(s, c) \cup discard(s, c) \cup new_qubit(s, c, TRUE)
                           : c \in Regs \ {a, b}} : Returned(o)}

C16_CNOTEndToEnd ==
  ~fatal =>
    \A a \in Regs \ DOMAIN context, b \in Regs \ DOMAIN context :
      a # b =>
        \A o1 \in new_qubit(Sim, a, TRUE) : Returned(o1) =>
          \A mid \in Between(o1, a, b) :
            \A o2 \in new_qubit(mid, b, FALSE) : Returned(o2) =>
              /\ \E o3 \in gate_operation(o2, "CNOT", <<a, b>>, <<>>) : Returned(o3)
              /\ \A o3 \in gate_operation(o2, "CNOT", <<a, b>>, <<>>) : Returned(o3) =>
                   /\ \E o4 \in read(o3, b) : Returned(o4)
                   /\ \A o4 \in read(o3, b) : Returned(o4) => o4.ret = RetInt(1)

\* A third register holds the qubit at index 0 and is measured between the
\* two allocations: a is allocated at index 1 and moved to 0, b gets index
\* 1 although its identifier is smaller than a's, and the read gives 1.
C16_Witness ==
  /\ ~fatal
  /\ num_qubits = 1
  /\ \E a \in Regs \ DOMAIN context, b \in Regs \ DOMAIN context, c \in QubitRegs(context) :
       /\ b < a
       /\ \E o1 \in new_qubit(Sim, a, TRUE) :
            /\ Returned(o1) /\ o1.context[a] = QubitRegister(1)
            /\ \E mid \in measure(o1, c) :
                 /\ Returned(mid) /\ mid.context[a] = QubitRegister(0)
                 /\ \E o2 \in new_qubit(mid, b, FALSE) :
                      /\ Returned(o2) /\ o2.context[b] = QubitRegister(1)
                      /\ \E o3 \in gate_operation(o2, "CNOT", <<a, b>>, <<>>) :
                           /\ Returned(o3)
                           /\ \E o4 \in read(o3, b) : o4.ret = RetInt(1)

----------------------------------------------------------------------------
(* C17: in every step, a register that is a key before and after the step  *)
(* keeps its variant, unless it goes from QubitRegister to BitRegister and  *)
(* the step is the end of a measure, read or discard of that very          *)
(* register; no step of new_qubit, new_qubit_from_bit, fresh, dump or a    *)
(* gate, and no measure, read or discard of another register, changes the  *)
(* variant of a register.                                                  *)

\* The registers that are keys of both contexts with different variants.
VariantChanged(c, d) == {k \in (DOMAIN c) \cap (DOMAIN d) : c[k].type # d[k].type}

\* The step taken is one of the ends outs of a call.
StepOf(outs) ==
  \E o \in outs : context' = o.context /\ num_qubits' = o.num_qubits /\ state' = o.state

C17_OnlyMeasureMakesBit ==
  [][\A k \in VariantChanged(context, context') :
       /\ IsQubit(context, k) /\ IsBit(context', k)
       /\ ~fatal
       /\ StepOf(measure(Sim, k) \cup read(Sim, k) \cup discard(Sim, k))]_vars

\* Two QubitRegisters and a BitRegister: the measure of one QubitRegister
\* makes it a BitRegister and leaves the two others what they were.
C17_Witness ==
  /\ ~fatal
  /\ \E q \in QubitRegs(context), p \in QubitRegs(context), b \in BitRegs(context) :
       /\ q # p
       /\ \E o \in measure(Sim, q) :
            /\ Returned(o)
            /\ VariantChanged(context, o.context) = {q}
            /\ IsBit(o.context, q) /\ IsQubit(o.context, p) /\ IsBit(o.context, b)

----------------------------------------------------------------------------
(* C18: reset() leaves the context empty, num_qubits 0 and the state None, *)
(* from every state; and no call of another method, made with a context    *)
(* that is not empty, ends with the context empty and the state None.      *)

ResetClears ==
  \A o \in reset(Sim) : o.context = <<>> /\ o.num_qubits = 0 /\ o.state = None

Emptied(o) == o.context = <<>> /\ o.state = None

\* The outcomes of every call of a method other than reset, except the
\* gates.
NonGateOutcomes ==
  dump(Sim) \cup fresh(Sim)
  \cup UNION {new_qubit(Sim, reg, bvalue) : reg \in Regs, bvalue \in BOOLEAN}
  \cup UNION {measure(Sim, reg) \cup read(Sim, reg) \cup discard(Sim, reg)
              \cup new_qubit_from_bit(Sim, reg) : reg \in Regs}

C18_OnlyResetEmpties ==
  /\ ResetClears
  /\ (~fatal /\ context # <<>>) =>
       /\ \A o \in NonGateOutcomes : ~Emptied(o)
       /\ \A cchk \in ControlEnds : \A gate \in Gates : \A regs \in TargetLists(gate) :
            \A o \in gate_body(Sim, gate, regs, cchk) : ~Emptied(o)

\* C18 as it holds: reset() clears everything from every state, and is the
\* only method that takes more than one register out of the context in a
\* call: a step that removes several keys is a reset, so that the other
\* methods empty the context and the state only in a step that starts with
\* a single register.
C18_OnlyResetClearsSeveral ==
  [][/\ ResetClears
     /\ Cardinality((DOMAIN context) \ (DOMAIN context')) > 1 => StepOf(reset(Sim))
     /\ (context # <<>> /\ context' = <<>> /\ state' = None)
          => StepOf(reset(Sim)) \/ Cardinality(DOMAIN context) = 1]_vars

\* Two live qubits and a BitRegister: reset() empties the simulator, and a
\* discard of a QubitRegister leaves the two other registers and a state.
C18_Witness ==
  /\ ~fatal
  /\ num_qubits = 2
  /\ Cardinality(DOMAIN context) = 3
  /\ \E o \in reset(Sim) : Emptied(o) /\ o.num_qubits = 0
  /\ \E reg \in QubitRegs(context) : \E o \in discard(Sim, reg) :
       Returned(o) /\ Cardinality(DOMAIN o.context) = 2 /\ o.state # None

----------------------------------------------------------------------------
(* C19: a gate call whose targets are QubitRegisters and whose controls,   *)
(* if any, are BitRegisters that all hold true leaves the context and      *)
(* num_qubits as they were, however it ends; when it returns, it has run   *)
(* one circuit in qiskit and the state is the old one with the gate        *)
(* applied to the qubits that belong to the target registers, taken in the *)
(* order of the targets (the last one is acted on, under the others for a  *)
(* controlled gate), every other qubit as it was; and it can return        *)
(* whenever the targets are distinct.                                      *)

\* Value of the qubit of st that was created for register r.
ValOf(st, r) == st[CHOOSE i \in 1 .. Len(st) : st[i].id = r].val

\* What the gate does to the value v of the qubit of its last target.
GateOnValue(gate, st, regs, v) ==
  IF gate = "H" THEN "?"
  ELSE IF gate \in FlipGates THEN Flip(v)
  ELSE IF gate \in CtrlFlipGates
       THEN CtrlFlip({ValOf(st, regs[i]) : i \in 1 .. (Len(regs) - 1)}, v)
       ELSE v

\* The vector after the gate, told by the registers the qubits belong to.
GateOnOwners(gate, st, regs) ==
  [i \in 1 .. Len(st) |->
     IF st[i].id = regs[Len(regs)]
     THEN [st[i] EXCEPT !.val = GateOnValue(gate, st, regs, @)]
     ELSE st[i]]

AllTrueControls == {cs \in ControlLists : \A i \in 1 .. Len(cs) : IsBit(context, cs[i]) /\ context[cs[i]].bit}

QubitTargets(gate) == {regs \in TargetLists(gate) : \A i \in 1 .. Len(regs) : IsQubit(context, regs[i])}

Distinct(regs) == \A i, j \in 1 .. Len(regs) : i # j => regs[i] # regs[j]

\* The loop over controls that all hold true ends as the loop over no
\* control does, so that the call goes on as gate(regs, []) does.
C19_GateOnCurrentIndices ==
  ~fatal =>
    /\ \A controls \in AllTrueControls :
         ControlsFrom(context, controls, 1) = ControlsFrom(context, <<>>, 1)
    /\ \A gate \in Gates : \A regs \in QubitTargets(gate) :
         LET outs == gate_operation(Sim, gate, regs, <<>>) IN
         /\ \A o \in outs :
              /\ o.calls <= 1
              /\ o.context = context
              /\ o.num_qubits = num_qubits
              /\ Returned(o) => o.calls = 1 /\ o.state = GateOnOwners(gate, state, regs)
         /\ Distinct(regs) => \E o \in outs : Returned(o)

\* A true BitRegister t and two QubitRegisters x and y, x with the larger
\* identifier and the smaller index, x in state "1" and y in state "0":
\* gate_CNOT(x, y, [t]) makes one call and leaves y in state "1" and x as
\* it was.
C19_Witness ==
  /\ ~fatal
  /\ \E t \in BitRegs(context), x \in QubitRegs(context), y \in QubitRegs(context) :
       /\ context[t].bit
       /\ x > y /\ context[x].qubit < context[y].qubit
       /\ ValOf(state, x) = "1" /\ ValOf(state, y) = "0"
       /\ \E o \in gate_operation(Sim, "CNOT", <<x, y>>, <<t>>) :
            /\ Returned(o) /\ o.calls = 1
            /\ ValOf(o.state, y) = "1" /\ ValOf(o.state, x) = "1"
            /\ o.state[context[y].qubit + 1].val = "1"

----------------------------------------------------------------------------
(* C20: read of a BitRegister returns its bit as 0 or 1, makes no call     *)
(* into qiskit and changes nothing; and in every step, whatever the method *)
(* and the register it is called on, a BitRegister that is still a key     *)
(* after the step holds the entry it held before: so two reads of it, with *)
(* any calls between them that do not remove it, return the same value.    *)

ReadsItsBit(s, reg) == read(s, reg) = {Same(s, RetInt(IF s.context[reg].bit THEN 1 ELSE 0), 0)}

C20_BitsAreStable ==
  [][\A reg \in BitRegs(context) :
       /\ ReadsItsBit(Sim, reg)
       /\ reg \in DOMAIN context' => context'[reg] = context[reg]]_vars

\* A BitRegister holding false and a qubit in superposition whose index is
\* the identifier of the BitRegister: the qubit is measured and gives
\* true, and the BitRegister still reads 0.
C20_Witness ==
  /\ ~fatal
  /\ \E b \in BitRegs(context), q \in QubitRegs(context) :
       /\ ~context[b].bit
       /\ context[q].qubit = b
       /\ state[context[q].qubit + 1].val = "?"
       /\ read(Sim, b) = {Same(Sim, RetInt(0), 0)}
       /\ \E o \in measure(Sim, q) :
            /\ Returned(o) /\ o.context[q] = BitRegister(TRUE)
            /\ o.context[b] = context[b]
            /\ read(o, b) = {Same(o, RetInt(0), 0)}

====
